---------------------------- MODULE Spec2Model ----------------------------
(***************************************************************************)
(* Harvard Artifacts Explorer (src/app.py): the paginated fetch            *)
(* (fetch_data), the SQLite writer (create_tables, insert_into_db) and the *)
(* query runner (run_query).                                               *)
(*                                                                         *)
(* The application is single threaded: a user action runs to completion    *)
(* before the next one is accepted.  The fetch and the store share no      *)
(* state inside the functions modelled here, so each has its own           *)
(* specification over the same variables: FetchSpec (and FetchFairSpec for *)
(* termination) and StoreSpec.                                             *)
(***************************************************************************)
EXTENDS Integers, Sequences, FiniteSets, TLC

VARIABLES
    \* ---- fetch_data ----
    fpc,         \* "idle" | "loop" (at the while test) | "done" (returned)
    rows,        \* the target row count argument
    avail,       \* how many records the remote source holds for the classification
    records,     \* the accumulator list
    page,        \* the page counter
    asked,       \* the "page" parameter of the last request sent (0: none yet)
    lastStatus,  \* r.status_code of the last response (0: none yet)
    fetchError,  \* the status shown by st.error (0: none)
    pauses,      \* number of time.sleep(0.2) calls made
    n429,        \* number of 429 answers seen, counted up to Max429
    result,      \* the returned list, records[:rows]
    \* ---- the SQLite file artifacts.db (committed contents) ----
    tables,      \* TRUE once create_tables has run
    metadata,    \* artifact_metadata: a set of rows
    media,       \* artifact_media: rows in insertion order
    colors,      \* artifact_colors: rows in insertion order
    \* ---- insert_into_db ----
    ipc,         \* "idle" | "open" (inside the for loop) | "committed" | "raised"
    txMetadata,  \* the tables as the open connection sees them
    txMedia,
    txColors,
    batch,       \* the records the running call has processed so far
    failedAt,    \* which record of the last call raised (0: none)
    history,     \* every record of every committed call, in order
    \* ---- run_query ----
    lastQuery,   \* the query string last run ("" : none)
    qOutcome     \* "none" | "rows" (a DataFrame was returned) | "raised"

fetchVars == <<fpc, rows, avail, records, page, asked, lastStatus, fetchError,
               pauses, n429, result>>
storeVars == <<tables, metadata, media, colors, ipc, txMetadata, txMedia,
               txColors, batch, failedAt, history, lastQuery,
               qOutcome>>
vars == <<fetchVars, storeVars>>

-----------------------------------------------------------------------------
(* Bounds of the model *)

MaxTarget == 300
MaxAvail == 350
Max429 == 2

(* Program constants *)

PageSize == 100

Min(a, b) == IF a < b THEN a ELSE b

\* The target counts tried: around the page boundaries, and up to MaxTarget.
Targets == {n \in 0..MaxTarget : n % 50 = 0} \cup {1, 99, 101, MaxTarget}

\* The sizes of the remote source tried.
Avails == {a \in 0..MaxAvail : a % 50 = 0} \cup {1, 99, 101, 320, MaxAvail}

\* Statuses other than 200 and 429.
ErrStatuses == {403, 500}

-----------------------------------------------------------------------------
(* fetch_data *)

\* The source's records are identified by their position, 1..a.
FirstN(n) == [i \in 1..n |-> i]

\* The "records" array of the answer to a request for page p with size
\* PageSize, against a source holding a records.
PageOf(a, p) ==
    LET lo == (p - 1) * PageSize + 1
        hi == Min(p * PageSize, a)
    IN  IF lo > hi THEN << >> ELSE [i \in 1..(hi - lo + 1) |-> lo + i - 1]

\* Variant: the test written with <=.
LoopTestOffByOne(n, target) == n <= target

\* while len(records) < rows
LoopTest(n, target) == n < target

\* Variants: no truncation; the last rows records kept instead of the first.
TruncateNone(recs, target) == recs
TruncateTail(recs, target) ==
    SubSeq(recs, Len(recs) - Min(target, Len(recs)) + 1, Len(recs))

\* records[:rows]
Truncate(recs, target) == SubSeq(recs, 1, Min(target, Len(recs)))

\* The "Collect Data" button: fetch_data(classification, rows, api_key) starts.
FetchStart ==
    /\ fpc # "loop"
    /\ \E n \in Targets, a \in Avails :
        /\ rows' = n
        /\ avail' = a
        /\ fpc' = IF LoopTest(0, n) THEN "loop" ELSE "done"
    /\ records' = << >>
    /\ page' = 1
    /\ asked' = 0
    /\ lastStatus' = 0
    /\ fetchError' = 0
    /\ pauses' = 0
    /\ n429' = 0
    /\ result' = << >>
    /\ UNCHANGED storeVars

\* Variant: the 429 branch advancing the page counter.
Fetch429SkipsPage ==
    /\ fpc = "loop"
    /\ LoopTest(Len(records), rows)
    /\ asked' = page
    /\ lastStatus' = 429
    /\ n429' = Min(n429 + 1, Max429)
    /\ page' = page + 1
    /\ UNCHANGED <<fpc, rows, avail, records, fetchError, pauses, result>>
    /\ UNCHANGED storeVars

\* One loop iteration answered 429: sleep(1), continue.
Fetch429 ==
    /\ fpc = "loop"
    /\ LoopTest(Len(records), rows)
    /\ asked' = page
    /\ lastStatus' = 429
    /\ n429' = Min(n429 + 1, Max429)
    /\ UNCHANGED <<fpc, rows, avail, records, page, fetchError, pauses, result>>
    /\ UNCHANGED storeVars

\* Variant: the error branch returning an empty list.
FetchErrorDropsRecords ==
    /\ fpc = "loop"
    /\ LoopTest(Len(records), rows)
    /\ \E s \in ErrStatuses :
        /\ lastStatus' = s
        /\ fetchError' = s
    /\ asked' = page
    /\ fpc' = "done"
    /\ records' = << >>
    /\ result' = << >>
    /\ UNCHANGED <<rows, avail, page, pauses, n429>>
    /\ UNCHANGED storeVars

\* One loop iteration answered with another status than 200 and 429:
\* st.error, break, bar.empty(), return records[:rows].
FetchError ==
    /\ fpc = "loop"
    /\ LoopTest(Len(records), rows)
    /\ \E s \in ErrStatuses :
        /\ lastStatus' = s
        /\ fetchError' = s
    /\ asked' = page
    /\ fpc' = "done"
    /\ result' = Truncate(records, rows)
    /\ UNCHANGED <<rows, avail, records, page, pauses, n429>>
    /\ UNCHANGED storeVars

\* One loop iteration answered 200.  An empty page breaks out of the loop; a
\* non-empty one is appended, the page counter advances, the fetch pauses
\* 0.2 s and the while test is taken again.  When the loop ends the function
\* returns records[:rows].
Fetch200 ==
    /\ fpc = "loop"
    /\ LoopTest(Len(records), rows)
    /\ asked' = page
    /\ lastStatus' = 200
    /\ LET chunk == PageOf(avail, page)
           recs == records \o chunk
       IN  IF chunk = << >>
           THEN /\ fpc' = "done"
                /\ result' = Truncate(records, rows)
                /\ UNCHANGED <<records, page, pauses>>
           ELSE /\ records' = recs
                /\ page' = page + 1
                /\ pauses' = pauses + 1
                /\ IF LoopTest(Len(recs), rows)
                   THEN /\ fpc' = "loop"
                        /\ result' = result
                   ELSE /\ fpc' = "done"
                        /\ result' = Truncate(recs, rows)
    /\ UNCHANGED <<rows, avail, fetchError, n429>>
    /\ UNCHANGED storeVars

-----------------------------------------------------------------------------
(* The store: create_tables, insert_into_db, run_query *)

\* At most this many records are ingested over a run of the model.
MaxIngested == 3

\* Python's None / SQL NULL in a text column.
None == "None"

Ids == {1, 2}

\* The color lists a raw record may carry under "colors".
ColorLists ==
    { << >>,
      << [color |-> "red"] >>,
      << [color |-> "red"], [color |-> "blue"] >> }

\* Raw records as the API returns them: any field but the id may be absent.
\* Of the twelve metadata columns and the six media columns, which are all
\* read by rec.get(column), the model keeps title and imagecount.
RawRecords ==
    LET sparse == {[id |-> i] : i \in Ids}
        full   == {[id |-> i, title |-> "a", imagecount |-> "3"] : i \in Ids}
        base   == sparse \cup full
    IN  base \cup
        {[k \in DOMAIN b \cup {"colors"} |->
              IF k = "colors" THEN cl ELSE b[k]] : b \in base, cl \in ColorLists}

\* dict.get(key): None when the key is absent.
Get(rec, key) == IF key \in DOMAIN rec THEN rec[key] ELSE None

\* The row written to artifact_metadata for a raw record.
MetaRow(rec) == [id |-> rec.id, title |-> Get(rec, "title")]

\* The row written to artifact_media for a raw record.
MediaRow(rec) == [objectid |-> rec.id, imagecount |-> Get(rec, "imagecount")]

\* Variant: only the first entry of the color list written.
ColorRowsFirstOnly(rec) ==
    IF "colors" \in DOMAIN rec /\ rec.colors # << >>
    THEN << [objectid |-> rec.id, color |-> Get(rec.colors[1], "color")] >>
    ELSE << >>

\* The rows written to artifact_colors for a raw record:
\* if "colors" in rec and rec["colors"]: one row per entry.
ColorRows(rec) ==
    IF "colors" \in DOMAIN rec /\ rec.colors # << >>
    THEN [j \in 1..Len(rec.colors) |->
              [objectid |-> rec.id, color |-> Get(rec.colors[j], "color")]]
    ELSE << >>

\* Variant: an upsert that keeps the old title when the new one is NULL.
InsertOrReplaceMerges(tbl, row) ==
    LET old == {r \in tbl : r.id = row.id}
        kept == IF old # {} /\ row.title = None
                THEN [row EXCEPT !.title = (CHOOSE r \in old : TRUE).title]
                ELSE row
    IN  (tbl \ old) \cup {kept}

\* INSERT OR REPLACE INTO artifact_metadata, id INTEGER PRIMARY KEY: the row
\* holding the same id is deleted, then the new row is inserted.
InsertOrReplace(tbl, row) == {r \in tbl : r.id # row.id} \cup {row}

\* Variant: the media row of an id replacing the id's earlier media rows.
InsertMediaReplaces(tbl, row) ==
    LET Other(r) == r.objectid # row.objectid
    IN  Append(SelectSeq(tbl, Other), row)

\* INSERT INTO artifact_media / artifact_colors: a plain append.
InsertMedia(tbl, row) == Append(tbl, row)

InsertColors(tbl, newRows) == tbl \o newRows

\* Variant: every statement committed as it runs.
AfterRaiseKeepsPending(committed, pending) == pending

\* What the database file holds after insert_into_db was left by an
\* exception: the connection was opened with sqlite3's default transaction
\* handling, the INSERTs ran inside one implicit transaction and
\* conn.commit() is only reached after the loop, so the pending statements
\* are rolled back when the connection goes away.
AfterRaise(committed, pending) == committed

CannedQueries ==
    { "SELECT DISTINCT culture FROM artifact_metadata WHERE culture IS NOT NULL;" }

\* The query strings tried: one of the page's own, and a malformed one.
Queries == CannedQueries \cup {"SELEC * FORM artifact_metadata"}

\* Whether SQLite can prepare the statement.
Prepares(q) == q \in CannedQueries /\ tables

\* The "Insert into Database" button: create_tables() runs and commits, then
\* insert_into_db opens its connection.
InsertBegin ==
    /\ ipc # "open"
    /\ tables' = TRUE
    /\ ipc' = "open"
    /\ txMetadata' = metadata
    /\ txMedia' = media
    /\ txColors' = colors
    /\ batch' = << >>
    /\ failedAt' = 0
    /\ lastQuery' = ""
    /\ qOutcome' = "none"
    /\ UNCHANGED <<metadata, media, colors, history>>
    /\ UNCHANGED fetchVars

\* One iteration of "for rec in records": the three kinds of INSERT of one
\* record, inside the connection's open transaction.  The records argument
\* is drawn one element at a time, as the loop reaches it.
InsertRecord ==
    /\ ipc = "open"
    /\ Len(txMedia) < MaxIngested
    /\ \E rec \in RawRecords :
        /\ txMetadata' = InsertOrReplace(txMetadata, MetaRow(rec))
        /\ txMedia' = InsertMedia(txMedia, MediaRow(rec))
        /\ txColors' = InsertColors(txColors, ColorRows(rec))
        /\ batch' = Append(batch, rec)
    /\ UNCHANGED <<tables, metadata, media, colors, ipc, failedAt, history,
                   lastQuery, qOutcome>>
    /\ UNCHANGED fetchVars

\* A statement of the next record raises (the database is locked, the disk
\* is full, a value cannot be bound): the exception leaves insert_into_db
\* before conn.commit().
InsertRaise ==
    /\ ipc = "open"
    /\ ipc' = "raised"
    /\ metadata' = AfterRaise(metadata, txMetadata)
    /\ media' = AfterRaise(media, txMedia)
    /\ colors' = AfterRaise(colors, txColors)
    /\ txMetadata' = metadata'
    /\ txMedia' = media'
    /\ txColors' = colors'
    /\ failedAt' = Len(batch) + 1
    /\ batch' = << >>
    /\ UNCHANGED <<tables, history, lastQuery, qOutcome>>
    /\ UNCHANGED fetchVars

\* The loop is over: conn.commit(), conn.close().
InsertCommit ==
    /\ ipc = "open"
    /\ ipc' = "committed"
    /\ metadata' = txMetadata
    /\ media' = txMedia
    /\ colors' = txColors
    /\ history' = history \o batch
    /\ batch' = << >>
    /\ UNCHANGED <<tables, txMetadata, txMedia, txColors, failedAt, lastQuery,
                   qOutcome>>
    /\ UNCHANGED fetchVars

\* run_query(query): pd.read_sql_query either returns a DataFrame or raises;
\* nothing in run_query or in the page that calls it catches the exception.
RunQuery ==
    /\ ipc # "open"
    /\ \E q \in Queries :
        /\ lastQuery' = q
        /\ qOutcome' = IF Prepares(q) THEN "rows" ELSE "raised"
    /\ UNCHANGED <<tables, metadata, media, colors, ipc, txMetadata, txMedia,
                   txColors, batch, failedAt, history>>
    /\ UNCHANGED fetchVars

-----------------------------------------------------------------------------
(* Specifications *)

\* The state when the script starts: no fetch made, and artifacts.db without
\* tables.
Init ==
    /\ fpc = "idle"
    /\ rows = 0
    /\ avail = 0
    /\ records = << >>
    /\ page = 1
    /\ asked = 0
    /\ lastStatus = 0
    /\ fetchError = 0
    /\ pauses = 0
    /\ n429 = 0
    /\ result = << >>
    /\ tables = FALSE
    /\ metadata = {}
    /\ media = << >>
    /\ colors = << >>
    /\ ipc = "idle"
    /\ txMetadata = {}
    /\ txMedia = << >>
    /\ txColors = << >>
    /\ batch = << >>
    /\ failedAt = 0
    /\ history = << >>
    /\ lastQuery = ""
    /\ qOutcome = "none"

FetchNext == FetchStart \/ Fetch429 \/ FetchError \/ Fetch200

FetchSpec == Init /\ [][FetchNext]_vars

\* The loop itself always takes its next iteration; that an iteration is
\* eventually answered with something else than 429 is the hypothesis under
\* which termination is claimed.
FetchFairSpec == FetchSpec /\ WF_vars(FetchError \/ Fetch200)

StoreNext == InsertBegin \/ InsertRecord \/ InsertRaise \/ InsertCommit \/ RunQuery

StoreSpec == Init /\ [][StoreNext]_vars

-----------------------------------------------------------------------------
(* Properties of fetch_data *)

CeilDiv(a, b) == (a + b - 1) \div b

IsPrefix(s, t) == Len(s) <= Len(t) /\ \A i \in 1..Len(s) : s[i] = t[i]

\* C1: when every request of a fetch was answered 200, the fetch returns
\* exactly the first min(rows, avail) records of the source in page order,
\* none repeated or skipped, and shows no error; this includes the fetch
\* that stops on the first empty page because the source ran out.
C1_AllPagesOk ==
    (fpc = "done" /\ n429 = 0 /\ lastStatus \notin ErrStatuses) =>
        /\ Len(result) = Min(rows, avail)
        /\ \A i \in 1..Len(result) : result[i] = i
        /\ fetchError = 0

C1_Witness ==
    /\ fpc = "done" /\ n429 = 0 /\ lastStatus = 200
    /\ avail < rows /\ avail > 2 * PageSize /\ avail % PageSize # 0
    /\ Len(result) = avail

\* C3: an answer with a status other than 200 and 429 ends the fetch in the
\* same iteration: no further request is sent, the status is shown as an
\* error, and the call returns (it does not raise) exactly the records of
\* the earlier successful pages, which are fewer than the target.
C3_HardErrorReturnsPartial ==
    /\ [](fpc = "done" /\ lastStatus \in ErrStatuses =>
            /\ fetchError = lastStatus
            /\ asked = page
            /\ Len(records) = Min(avail, (page - 1) * PageSize)
            /\ \A i \in 1..Len(records) : records[i] = i
            /\ result = records
            /\ Len(result) < rows)
    /\ [][fpc = "loop" /\ lastStatus' \in ErrStatuses =>
            fpc' = "done" /\ records' = records /\ page' = page]_vars

C3_Witness ==
    /\ fpc = "done" /\ fetchError = 500
    /\ page = 3 /\ Len(result) = 2 * PageSize

\* C4: a 429 answer changes neither the page counter nor the accumulator
\* and the request after it asks for the same page; the page counter is 1
\* at the first request and only a 200 answer with a non-empty page moves
\* it, by exactly one; so a fetch that met no hard error returns the same
\* list however many 429 answers it met.
C4_RateLimitRetriesSamePage ==
    /\ [][fpc = "loop" /\ lastStatus' = 429 =>
            /\ page' = page /\ records' = records /\ fpc' = "loop"
            /\ asked' = page]_vars
    /\ [][fpc = "loop" /\ lastStatus = 429 => asked' = asked]_vars
    /\ [](fpc = "loop" /\ lastStatus = 0 => page = 1)
    /\ [][fpc = "loop" /\ page' # page =>
            /\ page' = page + 1
            /\ lastStatus' = 200
            /\ Len(records') > Len(records)]_vars
    /\ [][fpc = "loop" /\ lastStatus' = 200 /\ Len(records') > Len(records) =>
            page' = page + 1]_vars
    /\ [](fpc = "done" /\ lastStatus \notin ErrStatuses =>
            result = FirstN(Min(rows, avail)))

C4_Witness ==
    /\ fpc = "done" /\ n429 = Max429 /\ lastStatus = 200
    /\ page = 4 /\ Len(result) = rows /\ rows > 2 * PageSize

\* C9 as claimed: target 250 against three full pages of 100 and a page of
\* 50: 250 records are returned after 3 pauses and the accumulator holds
\* exactly 250 records when the loop ends.
C9_Claimed ==
    (fpc = "done" /\ rows = 250 /\ avail = 350 /\ lastStatus = 200) =>
        /\ Len(result) = 250
        /\ pauses = 3
        /\ Len(records) = 250

\* C9 as amended: in that scenario 250 records are returned after 3 pauses,
\* one after each of the three pages fetched; the accumulator holds 300
\* records when the loop ends, the truncation removes the last 50, and the
\* page of 50 is never requested.
C9_OvershootTruncated ==
    (fpc = "done" /\ rows = 250 /\ avail = 350 /\ lastStatus = 200) =>
        /\ Len(result) = 250
        /\ \A i \in 1..250 : result[i] = i
        /\ pauses = 3
        /\ Len(records) = 300
        /\ asked = 3
        /\ page = 4

C9_Witness ==
    /\ fpc = "done" /\ rows = 250 /\ avail = 350 /\ lastStatus = 200
    /\ Len(records) - Len(result) = 50

\* C10: a fetch whose iterations are not answered 429 forever returns, after
\* at most ceil(rows / 100) answers that carried a non-empty page; a 429
\* answer can always come again and never ends the fetch, so nothing bounds
\* the retries.
C10_Termination ==
    /\ (fpc = "loop") ~> (fpc = "done")
    /\ [](page - 1 <= CeilDiv(rows, PageSize))
    /\ [](fpc = "loop" => ENABLED Fetch429)
    /\ [][fpc = "loop" /\ lastStatus' = 429 => fpc' = "loop"]_vars

C10_Witness ==
    /\ fpc = "done" /\ n429 = Max429 /\ fetchError = 0
    /\ rows > PageSize /\ rows % PageSize # 0
    /\ page - 1 = CeilDiv(rows, PageSize)

-----------------------------------------------------------------------------
(* Properties of the store *)

\* The last record of h carrying id i.
LastWithId(h, i) ==
    h[CHOOSE k \in 1..Len(h) :
          h[k].id = i /\ \A m \in (k + 1)..Len(h) : h[m].id # i]

HasId(h, i) == \E k \in 1..Len(h) : h[k].id = i

TimesIngested(h, i) == Cardinality({k \in 1..Len(h) : h[k].id = i})

RowsOf(tbl, i) == Cardinality({k \in 1..Len(tbl) : tbl[k].objectid = i})

NoColors(rec) == "colors" \notin DOMAIN rec \/ rec.colors = << >>

RECURSIVE ColorEntries(_)
ColorEntries(h) ==
    IF h = << >> THEN 0
    ELSE (IF NoColors(Head(h)) THEN 0 ELSE Len(Head(h).colors))
         + ColorEntries(Tail(h))

\* tbl holds exactly one row per id of h, with the columns of the last
\* record of h that carries the id.
UpsertedFrom(tbl, h) ==
    /\ \A r1, r2 \in tbl : r1.id = r2.id => r1 = r2
    /\ \A r \in tbl : HasId(h, r.id)
    /\ \A i \in Ids : HasId(h, i) =>
          LET last == LastWithId(h, i)
          IN  \E r \in tbl :
                /\ r.id = i
                /\ r.title = IF "title" \in DOMAIN last THEN last.title ELSE "None"

\* C2: artifact_metadata holds at most one row per id, and the row of every
\* ingested id carries the columns of the last record processed with that
\* id, a column the last record lacks being NULL; the same holds of what the
\* open connection sees while a batch that repeats an id is being written.
C2_MetadataUpsert ==
    /\ UpsertedFrom(metadata, history)
    /\ ipc = "open" => UpsertedFrom(txMetadata, history \o batch)

C2_Witness ==
    /\ ipc = "open" /\ Len(history) = 1 /\ Len(batch) = 2
    /\ history[1].id = 1 /\ batch[1].id = 1 /\ batch[2].id = 1
    /\ "title" \in DOMAIN history[1]
    /\ "title" \in DOMAIN batch[1] /\ "title" \notin DOMAIN batch[2]
    /\ metadata = {[id |-> 1, title |-> "a"]}
    /\ txMetadata = {[id |-> 1, title |-> "None"]}

\* C5: no step changes or removes a stored artifact_media or artifact_colors
\* row; the store holds one media row per record of every completed
\* ingestion and one color row per entry of its color list, so an id
\* ingested k times has k media rows and one metadata row.
C5_DependentsAppendOnly ==
    /\ [][IsPrefix(media, media') /\ IsPrefix(colors, colors')]_vars
    /\ [](/\ Len(media) = Len(history)
          /\ \A k \in 1..Len(media) : media[k].objectid = history[k].id
          /\ Len(colors) = ColorEntries(history)
          /\ \A i \in Ids :
                /\ RowsOf(media, i) = TimesIngested(history, i)
                /\ Cardinality({r \in metadata : r.id = i})
                      = IF TimesIngested(history, i) > 0 THEN 1 ELSE 0)

C5_Witness ==
    /\ ipc = "committed" /\ Len(history) = 3
    /\ TimesIngested(history, 1) = 3
    /\ RowsOf(media, 1) = 3
    /\ Len(colors) > 3
    /\ Cardinality(metadata) = 1

\* C6 as claimed: when a statement of the k-th record raises, what the call
\* wrote for records 1..k-1 is in the store afterwards.
C6_Claimed ==
    [][ipc = "open" /\ ipc' = "raised" /\ batch # << >> =>
          metadata' = txMetadata /\ media' = txMedia /\ colors' = txColors]_vars

\* C6 as amended: when a statement of the k-th record raises, the store is
\* left as it was before the call: the rows written for records 1..k-1 are
\* not committed, and only a call that reaches conn.commit() changes the
\* store.
C6_FailedBatchRolledBack ==
    /\ [][ipc = "open" /\ ipc' = "raised" =>
            metadata' = metadata /\ media' = media /\ colors' = colors]_vars
    /\ [][ipc' # "committed" => UNCHANGED <<metadata, media, colors>>]_vars
    /\ [](ipc = "raised" =>
            failedAt > 0 /\ Len(media) = Len(history) /\ txMedia = media)

C6_Witness ==
    /\ ipc = "raised" /\ failedAt = 3
    /\ Len(history) = 1 /\ Len(media) = 1 /\ Cardinality(metadata) = 1

\* C7: a malformed SQL string run through the query runner gives the caller
\* an error message, not an exception, and leaves the tables unchanged.
C7_QueryErrorSurfaced ==
    /\ [](lastQuery # "" /\ lastQuery \notin CannedQueries => qOutcome # "raised")
    /\ [][lastQuery' # lastQuery /\ lastQuery' # "" =>
            UNCHANGED <<metadata, media, colors>>]_vars

\* C8: processing a record whose color list is absent or empty adds no
\* artifact_colors row and still writes the record's metadata row and one
\* media row; a non-empty color list adds one color row per entry, in order,
\* each carrying the record's id.
C8_ColorExpansion ==
    [][ipc = "open" /\ Len(batch') = Len(batch) + 1 =>
          LET rec == batch'[Len(batch')]
              n   == IF NoColors(rec) THEN 0 ELSE Len(rec.colors)
          IN  /\ \E r \in txMetadata' : r.id = rec.id
              /\ Len(txMedia') = Len(txMedia) + 1
              /\ IsPrefix(txMedia, txMedia')
              /\ txMedia'[Len(txMedia')].objectid = rec.id
              /\ Len(txColors') = Len(txColors) + n
              /\ IsPrefix(txColors, txColors')
              /\ \A j \in 1..n :
                    txColors'[Len(txColors) + j] =
                        [objectid |-> rec.id, color |-> rec.colors[j].color]]_vars

C8_Witness ==
    /\ ipc = "open" /\ Len(batch) = 3
    /\ "colors" \notin DOMAIN batch[1]
    /\ "colors" \in DOMAIN batch[2] /\ batch[2].colors = << >>
    /\ "colors" \in DOMAIN batch[3] /\ Len(batch[3].colors) = 2
    /\ Len(txMedia) = 3 /\ Len(txColors) = 2
    /\ Cardinality(txMetadata) = 2

=============================================================================
